---- MODULE Spec2Model ----
(***************************************************************************)
(* Model of the email validator web application (src/app.py): the streamed *)
(* run validate_emails_stream.generate, the non-streaming run              *)
(* validate_emails / EmailValidator.process_emails, the per-address        *)
(* classification and the session snapshot store.                          *)
(*                                                                         *)
(* Strings are sequences: an address or a raw request text is a sequence   *)
(* of characters, a message or a reason is a sequence of tokens, so that   *)
(* concatenation is \o and the empty string is << >>.                      *)
(***************************************************************************)
EXTENDS Naturals, Integers, Sequences, FiniteSets, TLC

\* ------------------------------------------------------------------ bounds

\* Longest raw request text (characters).
MaxTextLen == 5

\* Largest count (processed, total) the percentage is evaluated for.
MaxCount == 50

\* ----------------------------------------------------------------- strings

Chars == {"a", " ", "\n"}

\* str.strip() with no argument removes whitespace, newlines included.
IsSpace(c) == c \in {" ", "\n"}

Texts == UNION {[1..n -> Chars] : n \in 0..MaxTextLen}

RECURSIVE LStrip(_)
LStrip(s) ==
    IF s = << >> THEN << >>
    ELSE IF IsSpace(Head(s)) THEN LStrip(Tail(s)) ELSE s

RECURSIVE RStrip(_)
RStrip(s) ==
    IF s = << >> THEN << >>
    ELSE IF IsSpace(s[Len(s)]) THEN RStrip(SubSeq(s, 1, Len(s) - 1)) ELSE s

Strip(s) == RStrip(LStrip(s))

\* str.split('\n'): the pieces between the separators, empty pieces kept
\* ("".split('\n') is [''], "a\n".split('\n') is ['a', '']).
RECURSIVE SplitFrom(_, _)
SplitFrom(s, cur) ==
    IF s = << >> THEN <<cur>>
    ELSE IF Head(s) = "\n" THEN <<cur>> \o SplitFrom(Tail(s), << >>)
    ELSE SplitFrom(Tail(s), Append(cur, Head(s)))

SplitLines(s) == SplitFrom(s, << >>)

RECURSIVE StripNonBlank(_)
StripNonBlank(lines) ==
    IF lines = << >> THEN << >>
    ELSE IF Strip(Head(lines)) # << >>
         THEN <<Strip(Head(lines))>> \o StripNonBlank(Tail(lines))
         ELSE StripNonBlank(Tail(lines))

\* [email.strip() for email in emails_text.split('\n') if email.strip()]
ParseEmails(text) == StripNonBlank(SplitLines(text))

\* ------------------------------------------------- verification outcomes

\* What validate_email hands back for one address: the provider's JSON
\* (keys result, reason), or {'error': str(e)} for a RequestException; any
\* other exception leaves validate_email (or the reading of the result).
Verdict(c, r) == [kind |-> "verdict", result |-> c, reason |-> r]
TransportError(m) == [kind |-> "error", error |-> m]
Raised(m) == [kind |-> "raise", error |-> m]

\* The outcomes the runs draw from: a transport error, a deliverable verdict,
\* another verdict, and an exception.
RunOutcomes ==
    { TransportError(<<"timeout">>),
      Verdict(<<"deliverable">>, << >>),
      Verdict(<<"risky">>, <<"low_quality">>),
      Raised(<<"boom">>) }

\* --------------------------------------------------------- classification

\* Mutant of StreamClassify: the operands of `reason or deliverable` swapped.
StreamClassifyClassFirst(email, result) ==
    IF result.kind = "error"
    THEN [bucket |-> "undeliverable", email |-> email,
          reason |-> <<"API Error: ">> \o result.error]
    ELSE IF result.result = <<"deliverable">>
    THEN [bucket |-> "deliverable", email |-> email, reason |-> << >>]
    ELSE [bucket |-> "undeliverable", email |-> email,
          reason |-> IF result.result # << >> THEN result.result
                     ELSE result.reason]

\* Mutant of StreamClassify: the transport error recorded without its prefix.
StreamClassifyNoPrefix(email, result) ==
    IF result.kind = "error"
    THEN [bucket |-> "undeliverable", email |-> email, reason |-> result.error]
    ELSE IF result.result = <<"deliverable">>
    THEN [bucket |-> "deliverable", email |-> email, reason |-> << >>]
    ELSE [bucket |-> "undeliverable", email |-> email,
          reason |-> IF result.reason # << >> THEN result.reason
                     ELSE result.result]

\* src/app.py lines 197-206: the bucket and the entry of one address.
StreamClassify(email, result) ==
    IF result.kind = "error"
    THEN [bucket |-> "undeliverable", email |-> email,
          reason |-> <<"API Error: ">> \o result.error]
    ELSE IF result.result = <<"deliverable">>
    THEN [bucket |-> "deliverable", email |-> email, reason |-> << >>]
    ELSE [bucket |-> "undeliverable", email |-> email,
          reason |-> IF result.reason # << >> THEN result.reason
                     ELSE result.result]

UndeliverableInfo(c) == [email |-> c.email, reason |-> c.reason]

\* Mutant of BatchClassify: the transport error recorded without its prefix.
BatchClassifyBareError(email, result) ==
    IF result.kind = "error"
    THEN [bucket |-> "undeliverable", email |-> email, reason |-> result.error]
    ELSE IF result.result = <<"deliverable">>
    THEN [bucket |-> "deliverable", email |-> email, reason |-> << >>]
    ELSE [bucket |-> "undeliverable", email |-> email,
          reason |-> IF result.reason # << >> THEN result.reason
                     ELSE result.result]

\* src/app.py lines 93-109: the same decision in process_emails.
BatchClassify(email, result) ==
    IF result.kind = "error"
    THEN [bucket |-> "undeliverable", email |-> email,
          reason |-> <<"API Error: ">> \o result.error]
    ELSE IF result.result = <<"deliverable">>
    THEN [bucket |-> "deliverable", email |-> email, reason |-> << >>]
    ELSE [bucket |-> "undeliverable", email |-> email,
          reason |-> IF result.reason # << >> THEN result.reason
                     ELSE result.result]

\* ---------------------------------------------------------- session store

SessionIds == {"s1", "s2"}

\* No file validation_sessions/<id>.json.
NoFile == [kind |-> "absent"]

\* The percentage is computed in floating point: processed / total is the
\* double nearest to the quotient, its product with 100 is rounded to a
\* double again, and int() truncates. A double is modelled by its significand,
\* a sequence of binary digits with the most significant first, and the
\* number of digits that stand after the binary point.

\* Binary digits of a double's significand.
MantissaBits == 53

\* Binary digits the dividend is written with (processed < 2^DividendBits).
DividendBits == 8

\* Binary digits of the quotient the long division produces: those of the
\* dividend and enough after the point to fill a significand.
QuotientBits == 72

\* The position of the first 1 in a sequence of binary digits.
FirstOne(bits) ==
    CHOOSE k \in 1..Len(bits) : bits[k] = 1 /\ \A m \in 1..(k - 1) : bits[m] = 0

\* Long division of p by t, four binary digits a step: the quotient in
\* base 16 and the remainder left.
RECURSIVE Nibbles(_, _, _, _, _)
Nibbles(p, t, k, r, out) ==
    IF 4 * (k - 1) >= QuotientBits
    THEN [digits |-> out, r |-> r]
    ELSE LET d == IF 4 * k > DividendBits THEN 0
                  ELSE (p \div 2^(DividendBits - 4 * k)) % 16
             rr == 16 * r + d
         IN  Nibbles(p, t, k + 1, rr % t, Append(out, rr \div t))

\* The binary digits of a number written in base 2^w, most significant first.
Unpacked(digits, w) ==
    [k \in 1..(w * Len(digits)) |->
        (digits[(k - 1) \div w + 1] \div 2^((w - 1) - ((k - 1) % w))) % 2]

\* The binary number one above `bits`.
Increment(bits) ==
    LET zeros == {k \in 1..Len(bits) : bits[k] = 0} IN
    IF zeros = {}
    THEN [k \in 1..(Len(bits) + 1) |-> IF k = 1 THEN 1 ELSE 0]
    ELSE LET z == CHOOSE k \in zeros : \A m \in zeros : m <= k
         IN  [k \in 1..Len(bits) |-> IF k < z THEN bits[k] ELSE IF k = z THEN 1 ELSE 0]

\* Round to nearest, ties to even: of the digits from position `first` on,
\* the MantissaBits kept and how many were dropped. `sticky` says that
\* non-zero digits follow those given.
RoundToNearest(bits, first, sticky) ==
    LET given == Len(bits) - first + 1 IN
    IF given <= MantissaBits
    THEN [bits |-> [k \in 1..given |-> bits[first + k - 1]], dropped |-> 0]
    ELSE LET kept == [k \in 1..MantissaBits |-> bits[first + k - 1]]
             half == bits[first + MantissaBits] = 1
             more == sticky \/ \E k \in (first + MantissaBits + 1)..Len(bits) : bits[k] = 1
         IN  [bits |-> IF half /\ (more \/ kept[MantissaBits] = 1)
                       THEN Increment(kept) ELSE kept,
              dropped |-> given - MantissaBits]

RECURSIVE ValueOf(_, _)
ValueOf(bits, n) ==
    IF n = 0 THEN 0 ELSE 2 * ValueOf(bits, n - 1) + bits[n]

\* A significand in base 2^12, five digits, most significant first.
Packed(bits) ==
    LET pad == 60 - Len(bits)
        at(k) == IF k <= pad THEN 0 ELSE bits[k - pad]
    IN  [j \in 1..5 |-> ValueOf([k \in 1..12 |-> at(12 * (j - 1) + k)], 12)]

\* The exact product of a significand with 100, from the last digit up: the
\* five digits in base 2^12 and the carry above them.
RECURSIVE Times100(_, _, _, _)
Times100(digits, j, carry, out) ==
    IF j = 0 THEN [digits |-> out, carry |-> carry]
    ELSE LET d == digits[j] * 100 + carry
         IN  Times100(digits, j - 1, d \div 4096, <<d % 4096>> \o out)

\* int((processed / total) * 100) for total > 0.
TruncatedPercent(processed, total) ==
    IF processed = 0 THEN 0
    ELSE LET dg == Nibbles(processed, total, 1, 0, << >>)
             qbits == Unpacked(dg.digits, 4)
             first == FirstOne(qbits)
             quot == RoundToNearest([k \in 1..(first + MantissaBits) |-> qbits[k]], first,
                                    dg.r # 0 \/ \E k \in (first + MantissaBits + 1)..QuotientBits :
                                                  qbits[k] = 1)
             \* digits of the quotient that stand after the binary point
             after == first + MantissaBits - 1 - DividendBits
             tm == Times100(Packed(quot.bits), 5, 0, << >>)
             pbits == Unpacked(<<tm.carry \div 4096, tm.carry % 4096>> \o tm.digits, 12)
             prod == RoundToNearest(pbits, FirstOne(pbits), FALSE)
             whole == Len(prod.bits) - (after - prod.dropped)
         IN  IF whole <= 0 THEN 0 ELSE ValueOf(prod.bits, whole)

\* Counts up to which the percentages are tabulated.
TableCount == 8

\* The percentages of the small counts, evaluated once: row `total`, column
\* `processed + 1`.
RECURSIVE PercentRow(_, _)
PercentRow(total, processed) ==
    IF processed = 0 THEN <<TruncatedPercent(0, total)>>
    ELSE Append(PercentRow(total, processed - 1), TruncatedPercent(processed, total))

RECURSIVE PercentRows(_)
PercentRows(total) ==
    IF total = 0 THEN << >>
    ELSE Append(PercentRows(total - 1), PercentRow(total, TableCount))

PercentTable == PercentRows(TableCount)

\* int((total_processed / total_emails * 100)) if total_emails > 0 else 0.
Percentage(processed, total) ==
    IF total <= 0 THEN 0
    ELSE IF processed <= TableCount /\ total <= TableCount
    THEN PercentTable[total][processed + 1]
    ELSE TruncatedPercent(processed, total)

\* The session_data dictionary of save_session_results, as json.dump writes it.
SessionData(sid, ts, d, u, processed, total) ==
    [kind |-> "json",
     session_id |-> sid,
     timestamp |-> ts,
     deliverable |-> d,
     undeliverable |-> u,
     total_processed |-> processed,
     total_emails |-> total,
     progress_percentage |-> Percentage(processed, total)]

\* A record left by an earlier run.
OldRecord(sid) ==
    SessionData(sid, 0, <<<<"o">>>>, <<[email |-> <<"p">>, reason |-> <<"old">>]>>, 2, 2)

\* A file that open(..., 'w') truncated and json.dump did not finish.
PartialFile == [kind |-> "partial"]

\* How one call of save_session_results can end: the file is written ("ok");
\* open() fails and the except of line 67 swallows it ("open_failed", the file
\* is as before); json.dump fails after open() truncated the file and the
\* except swallows it ("dump_failed"); or an exception leaves the function
\* ("raise": the print of line 68 is outside the try, after a failed open).
SaveOutcomes == {"ok", "open_failed", "dump_failed", "raise"}

\* Mutant of Saved: the new lists merged into the record that was there.
SavedMerging(store, sid, ts, d, u, processed, total, outcome) ==
    IF outcome = "ok"
    THEN [store EXCEPT ![sid] =
            IF @.kind = "json"
            THEN SessionData(sid, ts, @.deliverable \o d, @.undeliverable \o u,
                             processed, total)
            ELSE SessionData(sid, ts, d, u, processed, total)]
    ELSE IF outcome = "dump_failed"
    THEN [store EXCEPT ![sid] = PartialFile]
    ELSE store

\* The store after save_session_results ended with `outcome`.
Saved(store, sid, ts, d, u, processed, total, outcome) ==
    IF outcome = "ok"
    THEN [store EXCEPT ![sid] = SessionData(sid, ts, d, u, processed, total)]
    ELSE IF outcome = "dump_failed"
    THEN [store EXCEPT ![sid] = PartialFile]
    ELSE store

\* A file that cannot be opened for reading.
Unreadable == [kind |-> "unreadable"]

\* A file that holds valid JSON which is no object.
NotObject == [kind |-> "array"]

\* GET /session/<id>, lines 347-360: 404 without a file, 500 when open() or
\* json.load fails, else whatever JSON the file holds.
GetSession(store, sid) ==
    IF store[sid].kind = "absent"
    THEN [status |-> "404", error |-> <<"Session not found">>]
    ELSE IF store[sid].kind = "partial"
    THEN [status |-> "500", error |-> <<"JSONDecodeError">>]
    ELSE IF store[sid].kind = "unreadable"
    THEN [status |-> "500", error |-> <<"PermissionError">>]
    ELSE [status |-> "200", success |-> TRUE, session |-> store[sid]]

\* dict.get(key) of a key that is not there.
None == -1

\* Lines 376-384: the summary of one record.
Summary(sid, rec) ==
    [session_id |-> sid,
     timestamp |-> IF "timestamp" \in DOMAIN rec THEN rec.timestamp ELSE None,
     total_processed |-> rec.total_processed,
     total_emails |-> rec.total_emails,
     progress_percentage |-> rec.progress_percentage,
     deliverable_count |-> Len(rec.deliverable),
     undeliverable_count |-> Len(rec.undeliverable)]

\* Lines 369-386: the summaries of the files in the order os.listdir gives
\* them; a file that cannot be opened, is no JSON or is no object raises
\* inside the inner try and is passed over.
RECURSIVE Summaries(_, _)
Summaries(store, order) ==
    IF order = << >> THEN << >>
    ELSE LET rest == Summaries(store, Tail(order))
             rec == store[Head(order)]
         IN  IF rec.kind = "json" THEN <<Summary(Head(order), rec)>> \o rest
             ELSE rest

\* list.sort(key=..., reverse=True) is stable: of equal keys the earlier
\* stays first.
InsertDescending(sorted, x) ==
    LET n == Cardinality({k \in 1..Len(sorted) : sorted[k].timestamp >= x.timestamp})
    IN  SubSeq(sorted, 1, n) \o <<x>> \o SubSeq(sorted, n + 1, Len(sorted))

RECURSIVE SortedDescending(_)
SortedDescending(seq) ==
    IF seq = << >> THEN << >>
    ELSE InsertDescending(SortedDescending(SubSeq(seq, 1, Len(seq) - 1)), seq[Len(seq)])

\* GET /sessions, lines 367-396. The key of line 389 is x.get('timestamp', ''):
\* the summary has the key, so a record without timestamp gives None, and
\* sorting two or more summaries compares every key with another; None
\* compares with nothing (TypeError), which line 395 answers with 500.
ListSessions(store, order) ==
    LET found == Summaries(store, order) IN
    IF Len(found) >= 2 /\ \E k \in 1..Len(found) : found[k].timestamp = None
    THEN [status |-> "500", error |-> <<"TypeError">>]
    ELSE [status |-> "200", success |-> TRUE, sessions |-> SortedDescending(found)]

\* ------------------------------------------------------------------ events

ConfigErrorNoKey ==
    [type |-> "error", error |-> <<"KICKBOX_API_KEY not configured on server">>]

\* The two input errors carry no 'type' key.
ConfigErrorNoEmails == [error |-> <<"No emails provided">>]

ConfigErrorNoValid == [error |-> <<"No valid emails found">>]

InitialProgress(total, sid) ==
    [type |-> "progress", current |-> 0, total |-> total, percentage |-> 0,
     session_id |-> sid]

\* Mutant of ProgressEvent: the count taken before the address, not after.
ProgressEventZeroBased(cur, total, email, sid) ==
    [type |-> "progress", current |-> cur - 1, total |-> total,
     percentage |-> Percentage(cur - 1, total), current_email |-> email,
     session_id |-> sid]

ProgressEvent(cur, total, email, sid) ==
    [type |-> "progress", current |-> cur, total |-> total,
     percentage |-> Percentage(cur, total), current_email |-> email,
     session_id |-> sid]

WarningProgressEvent(cur, total, email, sid, msg) ==
    [type |-> "progress", current |-> cur, total |-> total,
     percentage |-> Percentage(cur, total), current_email |-> email,
     session_id |-> sid,
     warning |-> <<"Error processing ">> \o email \o <<": ">> \o msg]

CompleteEvent(d, u, total, sid) ==
    [type |-> "complete", success |-> TRUE,
     results |-> [deliverable |-> d, undeliverable |-> u,
                  total_processed |-> total],
     deliverable_count |-> Len(d), undeliverable_count |-> Len(u),
     total_processed |-> total, session_id |-> sid]

PartialCompleteEvent(d, u, sid, msg) ==
    [type |-> "partial_complete", success |-> FALSE, error |-> msg,
     results |-> [deliverable |-> d, undeliverable |-> u,
                  total_processed |-> Len(d) + Len(u)],
     deliverable_count |-> Len(d), undeliverable_count |-> Len(u),
     total_processed |-> Len(d) + Len(u), session_id |-> sid]

\* ------------------------------------------------------------------- state

VARIABLES
    api_key,              \* validator.api_key: "" when KICKBOX_API_KEY is unset
    emails_text,          \* data.get('emails', '') of the request
    session_id,           \* data.get('session_id', ...)
    sessions,             \* the files of SESSION_DIR, by session id
    now,                  \* the clock datetime.now() reads
    pc,                   \* where generate() stands
    emails,               \* generate(): the parsed addresses
    total_emails,         \* generate(): total_emails
    i,                    \* generate(): the loop index
    deliverable_emails,   \* generate(): deliverable_emails
    undeliverable_emails, \* generate(): undeliverable_emails
    email_error,          \* the exception a handler of generate() caught
    trace,                \* history: calls, writes, yields, sleeps, disconnect
    v_deliverable,        \* validator.deliverable_emails
    v_undeliverable,      \* validator.undeliverable_emails
    b_pc,                 \* where the non-streaming run stands
    b_route,              \* "validate": POST /validate; "direct": process_emails
    b_emails,             \* process_emails: emails
    b_i,                  \* process_emails: the index enumerate() is at
    results,              \* process_emails: results
    response,             \* what the non-streaming run handed back
    c_email,              \* classification alone: the address
    c_result,             \* classification alone: the outcome
    c_out,                \* classification alone: what the code made of it
    p_processed,          \* percentage alone: the processed count
    p_total,              \* percentage alone: the total count
    p_out,                \* percentage alone: what the code computed
    writers,              \* store alone: the save_session_results call under
                          \* way for each session, if any
    puts,                 \* store alone: history of the finished calls, by session
    got,                  \* store alone: the last answer of GET /session/<id>
    listed,               \* store alone: the last answer of GET /sessions
    r_pc,                 \* concurrent runs: where each process_emails stands
    r_emails,             \* concurrent runs: the list each was given
    r_i,                  \* concurrent runs: the index of each
    r_results,            \* concurrent runs: the results of each
    served,               \* concurrent runs: the last download
    oracle                \* both routes: the outcome of the k-th verification

vars ==
    <<api_key, emails_text, session_id, sessions, now, pc, emails,
      total_emails, i, deliverable_emails, undeliverable_emails, email_error,
      trace, v_deliverable, v_undeliverable, b_pc, b_route, b_emails, b_i,
      results, response, c_email, c_result, c_out, p_processed, p_total,
      p_out, writers, puts, got, listed, r_pc, r_emails, r_i, r_results,
      served, oracle>>

batchVars ==
    <<v_deliverable, v_undeliverable, b_pc, b_route, b_emails, b_i, results,
      response>>

classifyVars == <<c_email, c_result, c_out>>

percentVars == <<p_processed, p_total, p_out>>

storeVars == <<writers, puts, got, listed>>

runVars == <<r_pc, r_emails, r_i, r_results, served>>

\* What belongs to the specifications of one part alone.
sideVars == <<percentVars, storeVars, runVars, oracle>>

\* What generate() never touches.
nonStream == <<batchVars, classifyVars, sideVars>>

\* The locals of generate().
streamVars ==
    <<pc, emails, total_emails, i, deliverable_emails,
      undeliverable_emails, email_error>>

request == <<api_key, emails_text, session_id>>

\* Trace entries.
TVerify(email, result) == [op |-> "verify", email |-> email, result |-> result]
TSave(at, processed, outcome) ==
    [op |-> "save", at |-> at, processed |-> processed, outcome |-> outcome]
TYield(ev) == [op |-> "yield", event |-> ev]
TSleep == [op |-> "sleep"]
TClose == [op |-> "close"]

NoResults ==
    [deliverable |-> << >>, undeliverable |-> << >>, total_processed |-> 0,
     errors |-> << >>]

NoResponse == [status |-> "none"]

\* generate() not started, process_emails not called.
Idle ==
    /\ session_id = "s1"
    /\ now = 1
    /\ pc = "start"
    /\ emails = << >>
    /\ total_emails = 0
    /\ i = 0
    /\ deliverable_emails = << >>
    /\ undeliverable_emails = << >>
    /\ email_error = << >>
    /\ trace = << >>
    /\ v_deliverable = << >>
    /\ v_undeliverable = << >>
    /\ b_pc = "idle"
    /\ b_route = "none"
    /\ b_emails = << >>
    /\ b_i = 0
    /\ results = NoResults
    /\ response = NoResponse

NoClassify ==
    /\ c_email = << >>
    /\ c_result = Verdict(<< >>, << >>)
    /\ c_out = [bucket |-> "none"]

\* The variables of the other specifications, at rest.
NoPercent ==
    /\ p_processed = 0
    /\ p_total = 0
    /\ p_out = [at |-> "none"]

NoStore ==
    /\ writers = << >>
    /\ puts = << >>
    /\ got = [status |-> "none"]
    /\ listed = [status |-> "none"]

NoRuns ==
    /\ r_pc = << >>
    /\ r_emails = << >>
    /\ r_i = << >>
    /\ r_results = << >>
    /\ served = [status |-> "none"]

NoOracle == oracle = << >>

\* One request to the application: its text, the credential of the server
\* and the session files an earlier run may have left.
Init ==
    /\ api_key \in {<< >>, <<"k">>}
    /\ emails_text \in Texts
    /\ sessions \in {[s \in SessionIds |-> IF s = "s1" THEN r ELSE OldRecord(s)] :
                       r \in {NoFile, OldRecord("s1")}}
    /\ Idle
    /\ NoClassify
    /\ NoPercent
    /\ NoStore
    /\ NoRuns
    /\ NoOracle

\* ------------------------------------------- validate_emails_stream.generate

loopVars == <<emails, total_emails, i>>
buckets == <<deliverable_emails, undeliverable_emails>>
disk == <<sessions, now>>

\* Mutant of Start: the credential is not checked.
StartUnchecked ==
    /\ pc = "start"
    /\ b_pc = "idle"
    /\ IF Strip(emails_text) = << >>
       THEN /\ trace' = Append(trace, TYield(ConfigErrorNoEmails))
            /\ pc' = "at_config_error"
            /\ UNCHANGED <<emails, total_emails>>
       ELSE /\ emails' = ParseEmails(emails_text)
            /\ total_emails' = Len(emails')
            /\ trace' = Append(trace, TYield(InitialProgress(total_emails', session_id)))
            /\ pc' = "at_initial"
    /\ deliverable_emails' = << >>
    /\ undeliverable_emails' = << >>
    /\ UNCHANGED <<request, disk, i, email_error>>
    /\ UNCHANGED nonStream

\* First resumption: lines 165-190, up to the first yield.
Start ==
    /\ pc = "start"
    /\ b_pc = "idle"
    /\ IF api_key = << >>
       THEN /\ trace' = Append(trace, TYield(ConfigErrorNoKey))
            /\ pc' = "at_config_error"
            /\ UNCHANGED <<emails, total_emails>>
       ELSE IF Strip(emails_text) = << >>
       THEN /\ trace' = Append(trace, TYield(ConfigErrorNoEmails))
            /\ pc' = "at_config_error"
            /\ UNCHANGED <<emails, total_emails>>
       ELSE IF ParseEmails(emails_text) = << >>
       THEN /\ emails' = ParseEmails(emails_text)
            /\ trace' = Append(trace, TYield(ConfigErrorNoValid))
            /\ pc' = "at_config_error"
            /\ UNCHANGED total_emails
       ELSE /\ emails' = ParseEmails(emails_text)
            /\ total_emails' = Len(emails')
            /\ trace' = Append(trace, TYield(InitialProgress(total_emails', session_id)))
            /\ pc' = "at_initial"
    /\ deliverable_emails' = << >>
    /\ undeliverable_emails' = << >>
    /\ UNCHANGED <<request, disk, i, email_error>>
    /\ UNCHANGED nonStream

\* Resumed after the initial progress event: the for loop takes its first item.
EnterLoop ==
    /\ pc = "at_initial"
    /\ i' = 1
    /\ pc' = "verify"
    /\ UNCHANGED <<request, disk, emails, total_emails, buckets, email_error, trace>>
    /\ UNCHANGED nonStream

\* Lines 195-206: the verification call and the append of its classification;
\* an exception of the call or of the reading of its result goes to line 225.
Verify ==
    /\ pc = "verify"
    /\ \E result \in RunOutcomes :
         /\ trace' = Append(trace, TVerify(emails[i], result))
         /\ IF result.kind = "raise"
            THEN /\ email_error' = result.error
                 /\ pc' = "handler"
                 /\ UNCHANGED buckets
            ELSE LET c == StreamClassify(emails[i], result) IN
                 /\ IF c.bucket = "deliverable"
                    THEN /\ deliverable_emails' = Append(deliverable_emails, c.email)
                         /\ UNCHANGED undeliverable_emails
                    ELSE /\ undeliverable_emails' =
                              Append(undeliverable_emails, UndeliverableInfo(c))
                         /\ UNCHANGED deliverable_emails
                 /\ pc' = "save"
                 /\ UNCHANGED email_error
    /\ UNCHANGED <<request, disk, loopVars>>
    /\ UNCHANGED nonStream

\* Mutant of Save: save_session_results without its try, every failed write
\* an exception.
SaveUnguarded ==
    /\ pc = "save"
    /\ \E outcome \in SaveOutcomes :
         /\ sessions' = Saved(sessions, session_id, now, deliverable_emails,
                              undeliverable_emails, i, total_emails, outcome)
         /\ trace' = Append(trace, TSave("loop", i, outcome))
         /\ IF outcome # "ok"
            THEN /\ email_error' = <<"disk">>
                 /\ pc' = "handler"
            ELSE /\ pc' = "progress"
                 /\ UNCHANGED email_error
    /\ now' = now + 1
    /\ UNCHANGED <<request, loopVars, buckets>>
    /\ UNCHANGED nonStream

\* Lines 209-215: the snapshot after the address; an exception that leaves
\* save_session_results goes to line 225.
Save ==
    /\ pc = "save"
    /\ \E outcome \in SaveOutcomes :
         /\ sessions' = Saved(sessions, session_id, now, deliverable_emails,
                              undeliverable_emails, i, total_emails, outcome)
         /\ trace' = Append(trace, TSave("loop", i, outcome))
         /\ IF outcome = "raise"
            THEN /\ email_error' = <<"disk">>
                 /\ pc' = "handler"
            ELSE /\ pc' = "progress"
                 /\ UNCHANGED email_error
    /\ now' = now + 1
    /\ UNCHANGED <<request, loopVars, buckets>>
    /\ UNCHANGED nonStream

\* Lines 218-219: the progress event of address i.
Progress ==
    /\ pc = "progress"
    /\ trace' = Append(trace, TYield(ProgressEvent(i, total_emails, emails[i], session_id)))
    /\ pc' = "at_progress"
    /\ UNCHANGED <<request, disk, loopVars, buckets, email_error>>
    /\ UNCHANGED nonStream

\* Resumed after the progress event: lines 222-223, then the next item of the
\* for loop or, after the last, line 239.
Pace ==
    /\ pc = "at_progress"
    /\ trace' = IF i < total_emails THEN Append(trace, TSleep) ELSE trace
    /\ IF i < Len(emails)
       THEN /\ i' = i + 1
            /\ pc' = "verify"
       ELSE /\ pc' = "complete"
            /\ UNCHANGED i
    /\ UNCHANGED <<request, disk, emails, total_emails, buckets, email_error>>
    /\ UNCHANGED nonStream

\* Lines 225-228: the per-address handler records the address.
Handler ==
    /\ pc = "handler"
    /\ undeliverable_emails' =
         Append(undeliverable_emails,
                [email |-> emails[i],
                 reason |-> <<"Processing Error: ">> \o email_error])
    /\ pc' = "hsave"
    /\ UNCHANGED <<request, disk, loopVars, deliverable_emails, email_error, trace>>
    /\ UNCHANGED nonStream

\* Lines 229-235: the handler's snapshot; an exception here leaves the
\* per-address try and reaches line 254.
HandlerSave ==
    /\ pc = "hsave"
    /\ \E outcome \in SaveOutcomes :
         /\ sessions' = Saved(sessions, session_id, now, deliverable_emails,
                              undeliverable_emails, i, total_emails, outcome)
         /\ trace' = Append(trace, TSave("handler", i, outcome))
         /\ IF outcome = "raise"
            THEN /\ email_error' = <<"disk">>
                 /\ pc' = "outer"
            ELSE /\ pc' = "hprogress"
                 /\ UNCHANGED email_error
    /\ now' = now + 1
    /\ UNCHANGED <<request, loopVars, buckets>>
    /\ UNCHANGED nonStream

\* Line 236: the progress event with the warning.
HandlerProgress ==
    /\ pc = "hprogress"
    /\ trace' = Append(trace, TYield(WarningProgressEvent(i, total_emails, emails[i],
                                                          session_id, email_error)))
    /\ pc' = "at_hprogress"
    /\ UNCHANGED <<request, disk, loopVars, buckets, email_error>>
    /\ UNCHANGED nonStream

\* Resumed after the handler's event: the next item, with no sleep, or line 239.
HandlerNext ==
    /\ pc = "at_hprogress"
    /\ IF i < Len(emails)
       THEN /\ i' = i + 1
            /\ pc' = "verify"
       ELSE /\ pc' = "complete"
            /\ UNCHANGED i
    /\ UNCHANGED <<request, disk, emails, total_emails, buckets, email_error, trace>>
    /\ UNCHANGED nonStream

\* Lines 239-252: the final event.
Complete ==
    /\ pc = "complete"
    /\ trace' = Append(trace, TYield(CompleteEvent(deliverable_emails, undeliverable_emails,
                                                   total_emails, session_id)))
    /\ pc' = "at_complete"
    /\ UNCHANGED <<request, disk, loopVars, buckets, email_error>>
    /\ UNCHANGED nonStream

\* Lines 254-281: the outer handler saves before it sends; an exception of
\* that save leaves generate().
Outer ==
    /\ pc = "outer"
    /\ IF total_emails > 0
       THEN \E outcome \in SaveOutcomes :
              /\ sessions' = Saved(sessions, session_id, now, deliverable_emails,
                                   undeliverable_emails,
                                   Len(deliverable_emails) + Len(undeliverable_emails),
                                   total_emails, outcome)
              /\ trace' = Append(trace,
                                 TSave("final",
                                       Len(deliverable_emails) + Len(undeliverable_emails),
                                       outcome))
              /\ now' = now + 1
              /\ pc' = IF outcome = "raise" THEN "crashed" ELSE "partial"
       ELSE /\ pc' = "partial"
            /\ UNCHANGED <<disk, trace>>
    /\ UNCHANGED <<request, loopVars, buckets, email_error>>
    /\ UNCHANGED nonStream

\* Line 283: the partial_complete event.
Partial ==
    /\ pc = "partial"
    /\ trace' = Append(trace, TYield(PartialCompleteEvent(deliverable_emails,
                                                          undeliverable_emails,
                                                          session_id, email_error)))
    /\ pc' = "at_partial"
    /\ UNCHANGED <<request, disk, loopVars, buckets, email_error>>
    /\ UNCHANGED nonStream

\* Resumed after a ConfigError (the return of lines 172, 175, 182) or after
\* the last event: generate() ends.
Return ==
    /\ pc \in {"at_config_error", "at_complete", "at_partial"}
    /\ pc' = "returned"
    /\ UNCHANGED <<request, disk, loopVars, buckets, email_error, trace>>
    /\ UNCHANGED nonStream

Suspended ==
    {"at_config_error", "at_initial", "at_progress", "at_hprogress",
     "at_complete", "at_partial"}

\* Mutant of Close: the per-address handler catches what close() raises at
\* the yield of line 219, as "except BaseException" would.
CloseCaught ==
    /\ pc \in Suspended
    /\ trace' = Append(trace, TClose)
    /\ IF pc = "at_progress"
       THEN /\ email_error' = <<"exit">>
            /\ pc' = "handler"
       ELSE /\ pc' = "closed"
            /\ UNCHANGED email_error
    /\ UNCHANGED <<request, disk, loopVars, buckets>>
    /\ UNCHANGED nonStream

\* The consumer disconnects: the generator is closed at the yield it waits
\* in. GeneratorExit is no Exception, so neither handler catches it.
Close ==
    /\ pc \in Suspended
    /\ trace' = Append(trace, TClose)
    /\ pc' = "closed"
    /\ UNCHANGED <<request, disk, loopVars, buckets, email_error>>
    /\ UNCHANGED nonStream

\* ------------------------------------ validate_emails and process_emails

\* Mutant of BatchItem: the item taken as it is, not trimmed.
BatchItemUntrimmed(line) == line

\* Line 86: the item as the loop of process_emails reads it.
BatchItem(line) == Strip(line)

\* Lines 74-83: process_emails starts on the list it is given.
Process(list, route) ==
    /\ v_deliverable' = << >>
    /\ v_undeliverable' = << >>
    /\ b_emails' = list
    /\ results' = NoResults
    /\ b_i' = 1
    /\ b_route' = route
    /\ b_pc' = "loop"
    /\ UNCHANGED response

\* POST /validate, lines 128-144: the checks, then process_emails on the
\* parsed addresses.
Validate ==
    /\ b_pc = "idle"
    /\ pc = "start"
    /\ IF api_key = << >>
       THEN /\ response' = [status |-> "500",
                            error |-> <<"KICKBOX_API_KEY not configured on server">>]
            /\ b_pc' = "responded"
            /\ b_route' = "validate"
            /\ UNCHANGED <<v_deliverable, v_undeliverable, b_emails, b_i, results>>
       ELSE IF Strip(emails_text) = << >>
       THEN /\ response' = [status |-> "400", error |-> <<"No emails provided">>]
            /\ b_pc' = "responded"
            /\ b_route' = "validate"
            /\ UNCHANGED <<v_deliverable, v_undeliverable, b_emails, b_i, results>>
       ELSE IF ParseEmails(emails_text) = << >>
       THEN /\ response' = [status |-> "400", error |-> <<"No valid emails found">>]
            /\ b_pc' = "responded"
            /\ b_route' = "validate"
            /\ UNCHANGED <<v_deliverable, v_undeliverable, b_emails, b_i, results>>
       ELSE Process(ParseEmails(emails_text), "validate")
    /\ UNCHANGED <<request, disk, streamVars, trace, classifyVars, sideVars>>

\* process_emails called with a list of raw lines (lines 70-83): the lines of
\* the text as they are, blank and untrimmed ones included.
ProcessDirect ==
    /\ b_pc = "idle"
    /\ pc = "start"
    /\ Process(SplitLines(emails_text), "direct")
    /\ UNCHANGED <<request, disk, streamVars, trace, classifyVars, sideVars>>

\* Lines 85-113: one item of the loop. A blank item is skipped by continue,
\* before the sleep; an exception of the call leaves process_emails.
BatchStep ==
    /\ b_pc = "loop"
    /\ b_i <= Len(b_emails)
    /\ LET email == BatchItem(b_emails[b_i]) IN
       IF email = << >>
       THEN /\ b_i' = b_i + 1
            /\ UNCHANGED <<trace, results, v_deliverable, v_undeliverable, b_pc>>
       ELSE \E result \in RunOutcomes :
              IF result.kind = "raise"
              THEN /\ trace' = Append(trace, TVerify(email, result))
                   /\ b_pc' = "raised"
                   /\ UNCHANGED <<b_i, results, v_deliverable, v_undeliverable>>
              ELSE LET c == BatchClassify(email, result) IN
                   /\ trace' = IF b_i < Len(b_emails)
                               THEN trace \o <<TVerify(email, result), TSleep>>
                               ELSE Append(trace, TVerify(email, result))
                   /\ IF c.bucket = "deliverable"
                      THEN /\ v_deliverable' = Append(v_deliverable, email)
                           /\ results' =
                                [results EXCEPT
                                   !.total_processed = @ + 1,
                                   !.deliverable = Append(@, email)]
                           /\ UNCHANGED v_undeliverable
                      ELSE /\ v_undeliverable' =
                                Append(v_undeliverable, UndeliverableInfo(c))
                           /\ results' =
                                [results EXCEPT
                                   !.total_processed = @ + 1,
                                   !.undeliverable = Append(@, UndeliverableInfo(c)),
                                   !.errors = IF result.kind = "error"
                                              THEN Append(@, <<"Error validating ">>
                                                             \o email \o <<": ">>
                                                             \o result.error)
                                              ELSE @]
                           /\ UNCHANGED v_deliverable
                   /\ b_i' = b_i + 1
                   /\ UNCHANGED b_pc
    /\ UNCHANGED <<request, disk, streamVars, classifyVars, sideVars, b_route, b_emails, response>>

\* Line 115, and lines 146-152 for POST /validate: the results go back.
BatchReturn ==
    /\ b_pc = "loop"
    /\ b_i > Len(b_emails)
    /\ response' =
         IF b_route = "validate"
         THEN [status |-> "200", success |-> TRUE, results |-> results,
               deliverable_count |-> Len(results.deliverable),
               undeliverable_count |-> Len(results.undeliverable),
               total_processed |-> results.total_processed]
         ELSE [status |-> "returned", results |-> results]
    /\ b_pc' = "responded"
    /\ UNCHANGED <<request, disk, streamVars, classifyVars, sideVars, trace, v_deliverable,
                   v_undeliverable, b_route, b_emails, b_i, results>>

\* The exception of a call: lines 154-155 answer 500 for POST /validate; a
\* direct caller gets the exception.
BatchFail ==
    /\ b_pc = "raised"
    /\ response' =
         IF b_route = "validate"
         THEN [status |-> "500", error |-> <<"boom">>]
         ELSE [status |-> "raised", error |-> <<"boom">>]
    /\ b_pc' = "responded"
    /\ UNCHANGED <<request, disk, streamVars, classifyVars, sideVars, trace, v_deliverable,
                   v_undeliverable, b_route, b_emails, b_i, results>>

Next ==
    \/ Start
    \/ EnterLoop
    \/ Verify
    \/ Save
    \/ Progress
    \/ Pace
    \/ Handler
    \/ HandlerSave
    \/ HandlerProgress
    \/ HandlerNext
    \/ Complete
    \/ Outer
    \/ Partial
    \/ Return
    \/ Close
    \/ Validate
    \/ ProcessDirect
    \/ BatchStep
    \/ BatchReturn
    \/ BatchFail

Spec == Init /\ [][Next]_vars

\* ------------------------------------------------- classification alone

ClassifyEmails == {<<"a">>, <<"a", "a">>, <<"a", " ", "a">>}

ClassifyOutcomes ==
    {Verdict(c, r) :
        c \in {<<"deliverable">>, <<"undeliverable">>, <<"risky">>, <<"unknown">>, << >>},
        r \in {<< >>, <<"low_quality">>, <<"invalid_domain">>}}
    \cup {TransportError(m) : m \in {<<"timeout">>, <<"500 Server Error">>}}

InitClassify ==
    /\ api_key = <<"k">>
    /\ emails_text = << >>
    /\ sessions = [s \in SessionIds |-> NoFile]
    /\ Idle
    /\ c_email \in ClassifyEmails
    /\ c_result \in ClassifyOutcomes
    /\ c_out = [bucket |-> "none"]
    /\ NoPercent
    /\ NoStore
    /\ NoRuns
    /\ NoOracle

\* Lines 197-206 on one address and one outcome.
ClassifyInStream ==
    /\ c_out.bucket = "none"
    /\ c_out' = StreamClassify(c_email, c_result) @@ [by |-> "stream"]
    /\ UNCHANGED <<request, disk, streamVars, trace, batchVars, c_email, c_result, sideVars>>

\* Lines 93-109 on one address and one outcome.
ClassifyInBatch ==
    /\ c_out.bucket = "none"
    /\ c_out' = BatchClassify(c_email, c_result) @@ [by |-> "batch"]
    /\ UNCHANGED <<request, disk, streamVars, trace, batchVars, c_email, c_result, sideVars>>

NextClassify ==
    \/ ClassifyInStream
    \/ ClassifyInBatch

SpecClassify == InitClassify /\ [][NextClassify]_vars

\* ------------------------------------------------------ the store alone

\* Requests of independent sessions on the session directory: calls of
\* save_session_results, GET /session/<id> and GET /sessions, interleaved.
\* save_session_results is not one step: open(..., 'w') truncates the file
\* and json.dump fills it afterwards.

\* Finished and started calls of save_session_results the model follows.
MaxPuts == 2

StoreIds == SessionIds \cup {"s3"}

\* The sessions that have a run writing to them.
WrittenIds == SessionIds

\* A record written without the timestamp key.
Untimed(sid) ==
    [kind |-> "json", session_id |-> sid, deliverable |-> <<<<"o">>>>,
     undeliverable |-> << >>, total_processed |-> 1, total_emails |-> 1,
     progress_percentage |-> 100]

\* The states a run hands to save_session_results.
PutStates ==
    { [deliverable |-> <<<<"a">>>>, undeliverable |-> << >>,
       processed |-> 1, total |-> 2],
      [deliverable |-> <<<<"a">>>>,
       undeliverable |-> <<[email |-> <<"a", "a">>, reason |-> <<"risky">>]>>,
       processed |-> 2, total |-> 2] }

NoWriter == [pc |-> "idle"]

\* Mutant of Truncated: open(..., 'w') on every file of the directory.
TruncatedAll(store, sid) == [s \in DOMAIN store |-> PartialFile]

\* The store after open(session_file, 'w') of line 65.
Truncated(store, sid) == [store EXCEPT ![sid] = PartialFile]

InitStore ==
    /\ api_key = <<"k">>
    /\ emails_text = << >>
    /\ sessions \in
         {[s \in StoreIds |-> IF s = "s1" THEN a ELSE IF s = "s2" THEN b ELSE c] :
            a \in {NoFile, OldRecord("s1")},
            b \in {OldRecord("s2"), Untimed("s2"), PartialFile},
            c \in {NoFile, OldRecord("s3"), Untimed("s3"), PartialFile,
                   Unreadable, NotObject}}
    /\ Idle
    /\ NoClassify
    /\ NoPercent
    /\ writers = [s \in WrittenIds |-> NoWriter]
    /\ puts = [s \in WrittenIds |-> << >>]
    /\ got = [status |-> "none"]
    /\ listed = [status |-> "none"]
    /\ NoRuns
    /\ NoOracle

Observed == got.status # "none" \/ listed.status # "none"

storeFrame ==
    <<request, streamVars, trace, batchVars, classifyVars, percentVars, runVars,
      oracle>>

\* Lines 53-65 of save_session_results: the record is built and the file
\* opened for writing, which empties it; when open() fails the except of line
\* 67 ends the call and the file is as it was.
PutOpen(sid) ==
    /\ ~Observed
    /\ writers[sid].pc = "idle"
    /\ now <= MaxPuts
    /\ \E st \in PutStates, outcome \in {"ok", "open_failed"} :
         IF outcome = "ok"
         THEN /\ sessions' = Truncated(sessions, sid)
              /\ writers' =
                   [writers EXCEPT ![sid] =
                      [pc |-> "opened", state |-> st, was |-> sessions[sid],
                       data |-> SessionData(sid, now, st.deliverable, st.undeliverable,
                                            st.processed, st.total)]]
              /\ UNCHANGED puts
         ELSE /\ puts' = [puts EXCEPT ![sid] =
                            Append(@, [state |-> st, outcome |-> outcome,
                                       answer |-> GetSession(sessions, sid)])]
              /\ UNCHANGED <<sessions, writers>>
    /\ now' = now + 1
    /\ UNCHANGED <<got, listed>>
    /\ UNCHANGED storeFrame

\* Mutant of PutDump: the lists added to those of the record that was there.
PutDumpMerging(sid) ==
    /\ ~Observed
    /\ writers[sid].pc = "opened"
    /\ \E outcome \in {"ok", "dump_failed"} :
         /\ sessions' =
              IF outcome = "ok"
              THEN [sessions EXCEPT ![sid] =
                      IF writers[sid].was.kind = "json"
                      THEN [writers[sid].data EXCEPT
                              !.deliverable = writers[sid].was.deliverable \o @,
                              !.undeliverable = writers[sid].was.undeliverable \o @]
                      ELSE writers[sid].data]
              ELSE sessions
         /\ puts' = [puts EXCEPT ![sid] =
                       Append(@, [state |-> writers[sid].state, outcome |-> outcome,
                                  answer |-> GetSession(sessions', sid)])]
    /\ writers' = [writers EXCEPT ![sid] = NoWriter]
    /\ UNCHANGED <<now, got, listed>>
    /\ UNCHANGED storeFrame

\* Line 66 and the end of the with block: json.dump writes the record and the
\* file is closed; when it fails on the way the file stays cut short.
PutDump(sid) ==
    /\ ~Observed
    /\ writers[sid].pc = "opened"
    /\ \E outcome \in {"ok", "dump_failed"} :
         /\ sessions' = IF outcome = "ok"
                        THEN [sessions EXCEPT ![sid] = writers[sid].data]
                        ELSE sessions
         /\ puts' = [puts EXCEPT ![sid] =
                       Append(@, [state |-> writers[sid].state, outcome |-> outcome,
                                  answer |-> GetSession(sessions', sid)])]
    /\ writers' = [writers EXCEPT ![sid] = NoWriter]
    /\ UNCHANGED <<now, got, listed>>
    /\ UNCHANGED storeFrame

\* GET /session/<id>, with what the writer of that session was doing.
Get(sid) ==
    /\ ~Observed
    /\ got' = [status |-> "done", sid |-> sid,
               writer |-> IF sid \in WrittenIds THEN writers[sid] ELSE NoWriter,
               answer |-> GetSession(sessions, sid)]
    /\ UNCHANGED <<disk, writers, puts, listed>>
    /\ UNCHANGED storeFrame

Present(store) == {s \in DOMAIN store : store[s].kind # "absent"}

Orders(S) ==
    {f \in [1..Cardinality(S) -> S] : \A j, k \in 1..Cardinality(S) : f[j] = f[k] => j = k}

\* GET /sessions: the files in any order os.listdir may give.
List ==
    /\ ~Observed
    /\ \E order \in Orders(Present(sessions)) :
         listed' = [status |-> "done", order |-> order,
                    answer |-> ListSessions(sessions, order)]
    /\ UNCHANGED <<disk, writers, puts, got>>
    /\ UNCHANGED storeFrame

NextStore ==
    \/ \E sid \in WrittenIds : PutOpen(sid)
    \/ \E sid \in WrittenIds : PutDump(sid)
    \/ \E sid \in StoreIds : Get(sid)
    \/ List

SpecStore == InitStore /\ [][NextStore]_vars

\* ------------------------------------------------------- concurrent runs

\* Two POST /validate requests served at the same time by the threads of the
\* development server: each runs process_emails of the one module-level
\* validator, whose deliverable_emails and undeliverable_emails the two
\* download routes read.

Runs == {1, 2}

\* The parsed lists the two requests may bring; no address is in both.
RunInputs(run) ==
    IF run = 1
    THEN {<<<<"a">>>>, <<<<"a">>, <<"a", "a">>>>}
    ELSE {<<<<"a", " ", "a">>>>, <<<<"a", " ", "a">>, <<"a", "a", "a">>>>}

InitRuns ==
    /\ api_key = <<"k">>
    /\ emails_text = << >>
    /\ sessions = [s \in SessionIds |-> NoFile]
    /\ Idle
    /\ NoClassify
    /\ NoPercent
    /\ NoStore
    /\ r_pc = [run \in Runs |-> "idle"]
    /\ r_emails \in {[run \in Runs |-> IF run = 1 THEN a ELSE b] :
                        a \in RunInputs(1), b \in RunInputs(2)}
    /\ r_i = [run \in Runs |-> 0]
    /\ r_results = [run \in Runs |-> NoResults]
    /\ served = [status |-> "none"]
    /\ NoOracle

runsFrame ==
    <<request, disk, streamVars, b_pc, b_route, b_emails, b_i, results, response,
      classifyVars, percentVars, storeVars, oracle>>

\* Lines 74-83: process_emails empties the validator's lists and its own
\* results.
RunStart(run) ==
    /\ r_pc[run] = "idle"
    /\ v_deliverable' = << >>
    /\ v_undeliverable' = << >>
    /\ r_results' = [r_results EXCEPT ![run] = NoResults]
    /\ r_i' = [r_i EXCEPT ![run] = 1]
    /\ r_pc' = [r_pc EXCEPT ![run] = "loop"]
    /\ UNCHANGED <<r_emails, served, trace>>
    /\ UNCHANGED runsFrame

\* Lines 85-113 for one item: the call, then the appends to the validator's
\* list and to the results of this call; the sleep of line 113 lets the other
\* thread run.
RunStep(run) ==
    /\ r_pc[run] = "loop"
    /\ r_i[run] <= Len(r_emails[run])
    /\ LET email == BatchItem(r_emails[run][r_i[run]]) IN
       \E result \in RunOutcomes :
         /\ trace' = Append(trace, TVerify(email, result))
         /\ IF result.kind = "raise"
            THEN /\ r_pc' = [r_pc EXCEPT ![run] = "failed"]
                 /\ UNCHANGED <<v_deliverable, v_undeliverable, r_results, r_i>>
            ELSE LET c == BatchClassify(email, result) IN
                 /\ IF c.bucket = "deliverable"
                    THEN /\ v_deliverable' = Append(v_deliverable, email)
                         /\ r_results' =
                              [r_results EXCEPT
                                 ![run].total_processed = @ + 1,
                                 ![run].deliverable = Append(@, email)]
                         /\ UNCHANGED v_undeliverable
                    ELSE /\ v_undeliverable' =
                              Append(v_undeliverable, UndeliverableInfo(c))
                         /\ r_results' =
                              [r_results EXCEPT
                                 ![run].total_processed = @ + 1,
                                 ![run].undeliverable = Append(@, UndeliverableInfo(c)),
                                 ![run].errors =
                                    IF result.kind = "error"
                                    THEN Append(@, <<"Error validating ">> \o email
                                                   \o <<": ">> \o result.error)
                                    ELSE @]
                         /\ UNCHANGED v_deliverable
                 /\ r_i' = [r_i EXCEPT ![run] = @ + 1]
                 /\ UNCHANGED r_pc
    /\ UNCHANGED <<r_emails, served>>
    /\ UNCHANGED runsFrame

\* Line 115 and lines 146-152: the results of this call go back.
RunReturn(run) ==
    /\ r_pc[run] = "loop"
    /\ r_i[run] > Len(r_emails[run])
    /\ r_pc' = [r_pc EXCEPT ![run] = "returned"]
    /\ UNCHANGED <<v_deliverable, v_undeliverable, r_emails, r_i, r_results,
                   served, trace>>
    /\ UNCHANGED runsFrame

\* No process_emails is between its first and its last line.
Quiet == \A run \in Runs : r_pc[run] # "loop"

\* GET /download/deliverable, lines 289-310: the rows after the header.
DownloadDeliverable ==
    /\ served' = [status |-> "200", file |-> "deliverable", quiet |-> Quiet,
                  rows |-> v_deliverable]
    /\ UNCHANGED <<v_deliverable, v_undeliverable, r_pc, r_emails, r_i, r_results,
                   trace>>
    /\ UNCHANGED runsFrame

\* GET /download/undeliverable, lines 316-337.
DownloadUndeliverable ==
    /\ served' = [status |-> "200", file |-> "undeliverable", quiet |-> Quiet,
                  rows |-> v_undeliverable]
    /\ UNCHANGED <<v_deliverable, v_undeliverable, r_pc, r_emails, r_i, r_results,
                   trace>>
    /\ UNCHANGED runsFrame

NextRuns ==
    \/ \E run \in Runs : RunStart(run)
    \/ \E run \in Runs : RunStep(run)
    \/ \E run \in Runs : RunReturn(run)
    \/ DownloadDeliverable
    \/ DownloadUndeliverable

SpecRuns == InitRuns /\ [][NextRuns]_vars

\* -------------------------------------------------- the percentage alone

InitPercent ==
    /\ api_key = <<"k">>
    /\ emails_text = << >>
    /\ sessions = [s \in SessionIds |-> NoFile]
    /\ Idle
    /\ NoClassify
    /\ p_total \in 0..MaxCount
    /\ p_processed \in 0..p_total
    /\ p_out = [at |-> "none"]
    /\ NoStore
    /\ NoRuns
    /\ NoOracle

percentFrame ==
    <<request, disk, streamVars, trace, batchVars, classifyVars, storeVars, runVars,
      oracle, p_processed, p_total>>

\* Line 61: the percentage of the record save_session_results builds.
SnapshotPercentage ==
    /\ p_out.at = "none"
    /\ p_out' = [at |-> "snapshot",
                 percentage |-> SessionData(session_id, now, << >>, << >>, p_processed,
                                            p_total).progress_percentage]
    /\ UNCHANGED percentFrame

\* Line 218: the percentage of the progress event of address i of N.
ProgressPercentage ==
    /\ p_out.at = "none"
    /\ p_processed >= 1
    /\ p_out' = [at |-> "progress",
                 percentage |-> ProgressEvent(p_processed, p_total, <<"a">>,
                                              session_id).percentage]
    /\ UNCHANGED percentFrame

NextPercent ==
    \/ SnapshotPercentage
    \/ ProgressPercentage

SpecPercent == InitPercent /\ [][NextPercent]_vars

\* ------------------------------------------------ one input, both routes

\* The same raw text goes through process_emails (by POST /validate, or called
\* on the raw lines) and then through the streamed run, and the k-th
\* verification call of either gets the same outcome, oracle[k]: a verdict
\* or a transport error.

OracleOutcomes == {r \in RunOutcomes : r.kind # "raise"}

InitBoth ==
    /\ api_key = <<"k">>
    /\ emails_text \in Texts
    /\ sessions = [s \in SessionIds |-> NoFile]
    /\ Idle
    /\ NoClassify
    /\ NoPercent
    /\ NoStore
    /\ NoRuns
    /\ oracle \in [1..Len(ParseEmails(emails_text)) -> OracleOutcomes]

BothValidate == response = NoResponse /\ Validate

BothProcessDirect == response = NoResponse /\ ProcessDirect

\* One item of process_emails, its call answered by the oracle.
BothBatchStep ==
    /\ BatchStep
    /\ b_pc' = "loop"
    /\ results'.total_processed > results.total_processed =>
          LET V == SelectSeq(trace', LAMBDA t : t.op = "verify")
          IN  V[Len(V)].result = oracle[results'.total_processed]

\* The second request, POST /validate_stream with the same text (lines
\* 160-162), once the first has its response.
BothNextRequest ==
    /\ b_pc = "responded"
    /\ pc = "start"
    /\ b_pc' = "idle"
    /\ UNCHANGED <<request, disk, streamVars, trace, v_deliverable, v_undeliverable,
                   b_route, b_emails, b_i, results, response, classifyVars, sideVars>>

BothStart == response # NoResponse /\ Start

\* The call of address i, answered by the oracle.
BothVerify == Verify /\ trace'[Len(trace')].result = oracle[i]

\* The snapshot write, with no exception leaving it.
BothSave == Save /\ pc' = "progress"

NextBoth ==
    \/ BothValidate
    \/ BothProcessDirect
    \/ BothBatchStep
    \/ BatchReturn
    \/ BothNextRequest
    \/ BothStart
    \/ EnterLoop
    \/ BothVerify
    \/ BothSave
    \/ Progress
    \/ Pace
    \/ Complete
    \/ Return

SpecBoth == InitBoth /\ [][NextBoth]_vars

\* ------------------------------------------------ reading the history

Yields == SelectSeq(trace, LAMBDA t : t.op = "yield")

\* The event stream the consumer has received so far.
Events == LET Y == Yields IN [k \in 1..Len(Y) |-> Y[k].event]

Verifies == SelectSeq(trace, LAMBDA t : t.op = "verify")

Saves == SelectSeq(trace, LAMBDA t : t.op = "save")

HasType(ev, ty) == "type" \in DOMAIN ev /\ ev.type = ty

IsConfigError(ev) ==
    /\ "error" \in DOMAIN ev
    /\ ("type" \in DOMAIN ev => ev.type = "error")

IsProgress(ev) == HasType(ev, "progress")

IsComplete(ev) == HasType(ev, "complete")

IsPartialComplete(ev) == HasType(ev, "partial_complete")

IsTerminal(ev) == IsConfigError(ev) \/ IsComplete(ev) \/ IsPartialComplete(ev)

ProgressEvents == SelectSeq(Events, IsProgress)

\* generate() is over and the consumer was there to the end.
StreamEnded == pc \in {"returned", "crashed"}

RECURSIVE Occurrences(_, _)
Occurrences(seq, x) ==
    IF seq = << >> THEN 0
    ELSE (IF Head(seq) = x THEN 1 ELSE 0) + Occurrences(Tail(seq), x)

EmailsOf(infos) == [k \in 1..Len(infos) |-> infos[k].email]

\* ------------------------------------------------------------------ claims

\* C1: when a streamed run whose consumer stays connected is over, whatever
\* faults struck it, the consumer has received exactly one terminal event
\* (ConfigError, Complete or PartialComplete) and it is the last event.
C1_OneTerminalEvent ==
    StreamEnded =>
        LET E == Events IN
        /\ Len(E) >= 1
        /\ IsTerminal(E[Len(E)])
        /\ \A k \in 1..(Len(E) - 1) : ~IsTerminal(E[k])

\* C2: whenever address i of a streamed run has been dealt with (its Progress
\* event is out, or the final event is), every address has as many entries
\* across the two lists as it has occurrences among the first i addresses:
\* one entry per processed address, in one list only.
C2_OneEntryPerAddress ==
    pc \in {"at_progress", "at_hprogress", "at_complete", "at_partial"} =>
        /\ Len(deliverable_emails) + Len(undeliverable_emails) = i
        /\ \A k \in 1..i :
              Occurrences(deliverable_emails, emails[k])
                + Occurrences(EmailsOf(undeliverable_emails), emails[k])
              = Occurrences(SubSeq(emails, 1, i), emails[k])

\* The lines of a text and their trimmed form, read off the positions of the
\* characters (the claims' own reading of "non-blank line").
Whitespace == {" ", "\n"}

Inked(line) == {k \in 1..Len(line) : line[k] \notin Whitespace}

Lowest(S) == CHOOSE k \in S : \A m \in S : k <= m

Highest(S) == CHOOSE k \in S : \A m \in S : m <= k

Trimmed(line) == SubSeq(line, Lowest(Inked(line)), Highest(Inked(line)))

NonBlank(lines) == SelectSeq(lines, LAMBDA l : Inked(l) # {})

TrimmedNonBlank(lines) ==
    LET inked == NonBlank(lines) IN
    [k \in 1..Len(inked) |-> Trimmed(inked[k])]

Breaks(text) == {k \in 1..Len(text) : text[k] = "\n"}

\* The end of the line that starts at position p of the text.
LineEnd(text, p) ==
    IF \E k \in Breaks(text) : k >= p
    THEN Lowest({k \in Breaks(text) : k >= p})
    ELSE Len(text) + 1

LineStarts(text) == {1} \cup {k + 1 : k \in Breaks(text)}

RECURSIVE LinesFrom(_, _)
LinesFrom(text, p) ==
    IF p \notin LineStarts(text) \/ p > Len(text) + 1 THEN << >>
    ELSE <<SubSeq(text, p, LineEnd(text, p) - 1)>>
         \o LinesFrom(text, LineEnd(text, p) + 1)

\* The addresses of a raw text: its non-blank lines, trimmed, in order.
Addresses(text) == TrimmedNonBlank(LinesFrom(text, 1))

GotDeliverable(v) == v.result.kind = "verdict" /\ v.result.result = <<"deliverable">>

GotOther(v) == ~GotDeliverable(v)

\* C3: the results process_emails returns hold one entry per non-blank line
\* of the list it was given: total_processed counts those lines, the two
\* lists together hold as many entries, and each list keeps the input order.
C3_BatchOneEntryPerLine ==
    (b_pc = "responded" /\ response.status \in {"200", "returned"}) =>
        LET lines == TrimmedNonBlank(b_emails)
            r == response.results
        IN  /\ r.total_processed = Len(lines)
            /\ Len(r.deliverable) + Len(r.undeliverable) = r.total_processed
            /\ Len(Verifies) = Len(lines)
            /\ \A k \in 1..Len(lines) : Verifies[k].email = lines[k]
            /\ r.deliverable = EmailsOf(SelectSeq(Verifies, GotDeliverable))
            /\ EmailsOf(r.undeliverable) = EmailsOf(SelectSeq(Verifies, GotOther))

C3_Witness ==
    /\ b_pc = "responded"
    /\ response.status = "returned"
    /\ Len(b_emails) = 3
    /\ Inked(b_emails[2]) = {}
    /\ Len(response.results.deliverable) = 1
    /\ Len(response.results.undeliverable) = 1

\* C4 as the spec states it: a completed streamed run over N addresses has
\* sent exactly N Progress events, with current = 1, ..., N in that order.
C4_ProgressOncePerAddress ==
    (pc # "start" /\ Len(Events) >= 1 /\ IsComplete(Events[Len(Events)])) =>
        /\ Len(ProgressEvents) = Len(Addresses(emails_text))
        /\ \A k \in 1..Len(ProgressEvents) : ProgressEvents[k].current = k

\* C4, amended: the Progress events of a streamed run are the initial one
\* (current = 0, percentage = 0, no address) and then one per processed
\* address: their current values are 0, 1, 2, ... in that order, the one with
\* current = k >= 1 names the k-th address, and a completed run has sent
\* N + 1 of them. Every Progress event is the latest one at the yield that
\* sends it, so the formula reads the latest.
C4_ProgressAfterInitial ==
    pc \in {"at_initial", "at_progress", "at_hprogress", "at_complete"} =>
        LET P == ProgressEvents
            n == Len(P)
            last == P[n]
            A == Addresses(emails_text)
        IN  IF pc = "at_complete"
            THEN n = Len(A) + 1
            ELSE /\ trace[Len(trace)].op = "yield"
                 /\ IsProgress(trace[Len(trace)].event)
                 /\ last.current = n - 1
                 /\ last.total = Len(A)
                 /\ IF n = 1
                    THEN /\ "current_email" \notin DOMAIN last
                         /\ last.percentage = 0
                    ELSE last.current_email = A[n - 1]

C4_Witness ==
    /\ emails_text = <<"a", "\n", "\n", "a", "a">>
    /\ pc = "at_complete"
    /\ Len(ProgressEvents) = 3
    /\ ProgressEvents[2].percentage = 50
    /\ ProgressEvents[3].percentage = 100

\* C5: the three rules of the classification, in order, for every outcome: a
\* transport error gives Undeliverable with reason "API Error: " + message; a
\* "deliverable" verdict gives Deliverable; any other verdict gives
\* Undeliverable with the verdict's reason, or its classification when the
\* reason is empty.
C5_ClassificationRules ==
    c_out.bucket # "none" =>
        /\ c_out.email = c_email
        /\ IF c_result.kind = "error"
           THEN /\ c_out.bucket = "undeliverable"
                /\ c_out.reason = <<"API Error: ">> \o c_result.error
           ELSE IF c_result.result = <<"deliverable">>
           THEN c_out.bucket = "deliverable"
           ELSE /\ c_out.bucket = "undeliverable"
                /\ c_out.reason = IF Len(c_result.reason) > 0
                                  THEN c_result.reason
                                  ELSE c_result.result

C5_Witness ==
    /\ c_out.bucket = "undeliverable"
    /\ c_out.by = "stream"
    /\ c_result.kind = "verdict"
    /\ c_result.result = <<"unknown">>
    /\ c_result.reason = << >>
    /\ c_out.reason = <<"unknown">>

\* C6: with no credential, or with a text of whitespace only, the streamed
\* run sends one ConfigError event and nothing else happens: no other event,
\* no verification call, no snapshot write, the session's file untouched.
\* The history holds that event and, when the consumer left, the disconnect.
C6_ConfigErrorOnly ==
    (pc # "start" /\ (api_key = << >> \/ Inked(emails_text) = {})) =>
        /\ Len(trace) >= 1
        /\ \A k \in 2..Len(trace) : trace[k].op = "close"
        /\ trace[1].op = "yield"
        /\ IsConfigError(trace[1].event)
        /\ ~IsProgress(trace[1].event)
        /\ sessions[session_id] \in {NoFile, OldRecord(session_id)}

C6_Witness ==
    /\ pc = "returned"
    /\ api_key # << >>
    /\ emails_text = <<" ", "\n", " ">>
    /\ sessions[session_id] = OldRecord(session_id)

\* The entry the spec's rules give an address whose verification ended as v.
RuleInfo(v) ==
    [email |-> v.email,
     reason |-> IF v.result.kind = "error"
                THEN <<"API Error: ">> \o v.result.error
                ELSE IF v.result.kind = "raise"
                THEN <<"Processing Error: ">> \o v.result.error
                ELSE IF Len(v.result.reason) > 0 THEN v.result.reason
                ELSE v.result.result]

RuleDeliverable(V) == EmailsOf(SelectSeq(V, GotDeliverable))

RuleUndeliverable(V) ==
    LET others == SelectSeq(V, GotOther) IN
    [k \in 1..Len(others) |-> RuleInfo(others[k])]

\* No exception anywhere and every snapshot written.
OnlyTransportErrors ==
    \A k \in 1..Len(trace) :
        /\ trace[k].op = "verify" => trace[k].result.kind # "raise"
        /\ trace[k].op = "save" => trace[k].outcome = "ok"

\* C7: a streamed run whose only faults are transport errors never takes the
\* handlers and never sends PartialComplete; it ends with Complete, whose lists
\* hold every address once: "API Error: " + message for a failed call, its own
\* verdict for any other.
C7_TransportErrorsRecoverable ==
    (pc # "start" /\ api_key # << >> /\ Inked(emails_text) # {}
       /\ OnlyTransportErrors) =>
        LET E == Events
            V == Verifies
            A == Addresses(emails_text)
        IN  /\ pc \in {"at_initial", "verify", "save", "progress", "at_progress",
                       "complete", "at_complete", "returned", "closed"}
            /\ \A k \in 1..Len(E) : ~IsPartialComplete(E[k])
            /\ pc \in {"at_complete", "returned"} =>
                  /\ IsComplete(E[Len(E)])
                  /\ Len(V) = Len(A)
                  /\ \A k \in 1..Len(A) : V[k].email = A[k]
                  /\ E[Len(E)].results.deliverable = RuleDeliverable(V)
                  /\ E[Len(E)].results.undeliverable = RuleUndeliverable(V)
                  /\ E[Len(E)].total_processed = Len(A)

C7_Witness ==
    /\ pc = "at_complete"
    /\ OnlyTransportErrors
    /\ Len(Verifies) = 3
    /\ GotDeliverable(Verifies[1])
    /\ Verifies[2].result.kind = "error"
    /\ Verifies[3].result.kind = "verdict"
    /\ Len(undeliverable_emails) = 2
    /\ undeliverable_emails[1].reason = <<"API Error: ", "timeout">>

\* An exception left the per-address handler.
Escaped == \E k \in 1..Len(Saves) : Saves[k].at = "handler" /\ Saves[k].outcome = "raise"

EscapeAt == CHOOSE k \in 1..Len(trace) :
                trace[k].op = "save" /\ trace[k].at = "handler" /\ trace[k].outcome = "raise"

\* C8: a streamed run in which an exception left the per-address handler
\* makes no verification call after it, attempts exactly one final snapshot
\* write, and ends with a PartialComplete event that carries the lists as
\* they stood and counts their entries.
C8_PartialCompleteAfterEscape ==
    (StreamEnded /\ Escaped) =>
        /\ \A k \in (EscapeAt + 1)..Len(trace) : trace[k].op # "verify"
        /\ Len(SelectSeq(Saves, LAMBDA t : t.at = "final")) = 1
        /\ Len(Events) >= 1
        /\ IsPartialComplete(Events[Len(Events)])
        /\ Events[Len(Events)].results.deliverable = deliverable_emails
        /\ Events[Len(Events)].results.undeliverable = undeliverable_emails
        /\ Events[Len(Events)].total_processed
             = Len(deliverable_emails) + Len(undeliverable_emails)

\* No exception left save_session_results.
NoSaveRaised == \A k \in 1..Len(Saves) : Saves[k].outcome # "raise"

\* The event the k-th address brings when its verification ended as v.
RuleProgress(k, total, v, sid) ==
    IF v.result.kind = "raise"
    THEN [type |-> "progress", current |-> k, total |-> total,
          percentage |-> (k * 100) \div total, current_email |-> v.email,
          session_id |-> sid,
          warning |-> <<"Error processing ">> \o v.email \o <<": ">> \o v.result.error]
    ELSE [type |-> "progress", current |-> k, total |-> total,
          percentage |-> (k * 100) \div total, current_email |-> v.email,
          session_id |-> sid]

C10_SnapshotBeforeProgress ==
    pc \in {"at_progress", "at_hprogress"} =>
        LET n == Len(trace) IN
        /\ trace[n].op = "yield"
        /\ IsProgress(trace[n].event)
        /\ trace[n].event.current = i
        /\ trace[n - 1].op = "save"
        /\ trace[n - 1].processed = i
        /\ trace[n - 1].outcome = "ok" =>
              LET answer == GetSession(sessions, session_id) IN
              /\ answer.status = "200"
              /\ answer.session.timestamp > 0
              /\ answer.session =
                   LET N == Len(Addresses(emails_text)) IN
                   [kind |-> "json",
                    session_id |-> session_id,
                    timestamp |-> answer.session.timestamp,
                    deliverable |-> deliverable_emails,
                    undeliverable |-> undeliverable_emails,
                    total_processed |-> i,
                    total_emails |-> N,
                    progress_percentage |-> (i * 100) \div N]

C10_Witness ==
    /\ pc = "at_progress"
    /\ i = 2
    /\ Len(Saves) = 2
    /\ Saves[1].outcome = "ok"
    /\ Saves[2].outcome = "ok"
    /\ sessions[session_id].total_processed = 2
    /\ Len(sessions[session_id].deliverable) = 1
    /\ Len(sessions[session_id].undeliverable) = 1

\* The records of the directory that list_sessions can read as a session.
Records(store) == {s \in DOMAIN store : store[s].kind = "json"}

Listed(answer) == {answer.sessions[k].session_id : k \in 1..Len(answer.sessions)}

Missing(summary) == summary.timestamp = None

\* C11: whatever the session directory holds, GET /sessions succeeds, its
\* summaries are in descending order of timestamp, and a record without a
\* timestamp is among them, after every record that has one.
C11_ListSortedAlways ==
    listed.status = "done" =>
        LET a == listed.answer IN
        /\ a.status = "200"
        /\ Records(sessions) \subseteq Listed(a)
        /\ \A j, k \in 1..Len(a.sessions) :
              j < k =>
                \/ Missing(a.sessions[k])
                \/ /\ ~Missing(a.sessions[j])
                   /\ a.sessions[j].timestamp >= a.sessions[k].timestamp

\* The verification calls made for the addresses of one run.
VerifiesOf(run) ==
    SelectSeq(Verifies, LAMBDA v : \E k \in 1..Len(r_emails[run]) : r_emails[run][k] = v.email)

\* C12: concurrent runs share nothing but the store. The results a run
\* returns hold its own addresses only, classified as if it had run alone,
\* and a download made while no run is under way serves the bucket of one
\* run, never a mixture of two.
C12_RunsIsolated ==
    /\ \A run \in Runs :
          r_pc[run] = "returned" =>
             /\ r_results[run].deliverable = RuleDeliverable(VerifiesOf(run))
             /\ r_results[run].undeliverable = RuleUndeliverable(VerifiesOf(run))
    /\ (served.status = "200" /\ served.quiet) =>
          \/ served.rows = << >>
          \/ \E run \in Runs :
                served.rows = IF served.file = "deliverable"
                              THEN r_results[run].deliverable
                              ELSE r_results[run].undeliverable

\* A step of the save_session_results call of session b.
WriterStep(b) == b \in WrittenIds /\ (writers'[b] # writers[b] \/ puts'[b] # puts[b])

\* C13: a write is local to its session. Every step that is not a step of
\* the save_session_results call of session b (a step of the call of another
\* session, a get, a listing) leaves what GET /session/b returns as it was.
C13_PutSessionLocal ==
    [][\A b \in StoreIds :
          ~WriterStep(b) => GetSession(sessions', b) = GetSession(sessions, b)]_vars

C13_Witness ==
    /\ got.status = "done"
    /\ got.sid = "s2"
    /\ got.answer.status = "200"
    /\ got.answer.session = OldRecord("s2")
    /\ Len(puts["s1"]) = 2
    /\ puts["s1"][1].outcome = "ok"
    /\ puts["s1"][2].outcome = "ok"
    /\ sessions["s1"].timestamp = 2

\* Two answers of GET /session/<id> that differ in the timestamp at most.
SameButTimestamp(a, b) ==
    /\ a.status = b.status
    /\ a.status = "200" =>
          /\ a.session.session_id = b.session.session_id
          /\ a.session.deliverable = b.session.deliverable
          /\ a.session.undeliverable = b.session.undeliverable
          /\ a.session.total_processed = b.session.total_processed
          /\ a.session.total_emails = b.session.total_emails
          /\ a.session.progress_percentage = b.session.progress_percentage

\* C14: save_session_results called twice in a row for a session with the
\* same state, both calls ending the same way, leaves a record for which
\* GET /session/<id> answers as after the first call, but for the timestamp.
C14_PutIdempotent ==
    \A sid \in DOMAIN puts :
        \A k \in 1..(Len(puts[sid]) - 1) :
            (puts[sid][k].state = puts[sid][k + 1].state
               /\ puts[sid][k].outcome = puts[sid][k + 1].outcome) =>
                SameButTimestamp(puts[sid][k].answer, puts[sid][k + 1].answer)

C14_Witness ==
    /\ Len(puts["s1"]) = 2
    /\ puts["s1"][1].state = puts["s1"][2].state
    /\ puts["s1"][1].outcome = "ok"
    /\ puts["s1"][2].outcome = "ok"
    /\ Len(puts["s1"][1].state.undeliverable) = 1
    /\ puts["s1"][1].answer.session.timestamp = 1
    /\ puts["s1"][2].answer.session.timestamp = 2
    /\ GetSession(sessions, "s1") = puts["s1"][2].answer

\* C15: the percentage of every snapshot and of every Progress event is
\* floor(processed * 100 / total) for 0 <= processed <= total and total > 0,
\* and 0 for total = 0: an integer of 0..100 that is 100 exactly when
\* processed = total.
C15_PercentageIsFloor ==
    p_out.at # "none" =>
        IF p_total = 0 THEN p_out.percentage = 0
        ELSE /\ p_out.percentage = (p_processed * 100) \div p_total
             /\ p_out.percentage \in 0..100
             /\ p_out.percentage = 100 <=> p_processed = p_total

\* The exception the per-address try of address k ended with, if any: one
\* of the verification call, or one that left the save of line 209.
ExceptionAt(k) ==
    IF k <= Len(Verifies) /\ Verifies[k].result.kind = "raise"
    THEN Verifies[k].result.error
    ELSE IF \E n \in 1..Len(Saves) :
              Saves[n].at = "loop" /\ Saves[n].processed = k /\ Saves[n].outcome = "raise"
    THEN <<"disk">>
    ELSE << >>

\* The run has left the per-address handler of address k behind.
HandledPast(k) ==
    \/ i > k
    \/ i = k /\ pc \in {"at_hprogress", "complete", "at_complete", "returned", "closed"}

ProgressOf(k) == SelectSeq(ProgressEvents, LAMBDA ev : ev.current = k)

\* C16: when the per-address try of address k of a streamed run ends with an
\* exception, the run is not aborted (no outer handler, no PartialComplete);
\* the address gets an Undeliverable entry with reason "Processing Error: " +
\* message; and once the run has moved on, exactly one Progress event with
\* current = k has been sent, and it carries a warning.
C16_ExceptionRecordedRunContinues ==
    \A k \in 1..Len(emails) :
        ExceptionAt(k) # << >> =>
            /\ pc \notin {"outer", "partial", "at_partial", "crashed"}
            /\ \A n \in 1..Len(Events) : ~IsPartialComplete(Events[n])
            /\ (i > k \/ pc # "handler") =>
                  \E n \in 1..Len(undeliverable_emails) :
                      undeliverable_emails[n] =
                         [email |-> emails[k],
                          reason |-> <<"Processing Error: ">> \o ExceptionAt(k)]
            /\ HandledPast(k) =>
                  /\ Len(ProgressOf(k)) = 1
                  /\ "warning" \in DOMAIN ProgressOf(k)[1]

\* The verification calls and the pacing delays of the run, in order.
Paced == SelectSeq(trace, LAMBDA t : t.op \in {"verify", "sleep"})

\* The run is over: the streamed one sent its last event, process_emails
\* returned or raised.
RunOver ==
    \/ pc \in {"at_complete", "at_partial", "returned", "crashed"}
    \/ b_pc = "responded"

\* No exception in the run.
FaultFree ==
    \A k \in 1..Len(trace) :
        /\ trace[k].op = "verify" => trace[k].result.kind # "raise"
        /\ trace[k].op = "save" => trace[k].outcome # "raise"

\* C17: no pacing delay follows the verification call of the last address
\* processed, whatever the list ends with, and in a run without exception
\* exactly one delay lies between two consecutive verification calls.
C17_NoDelayAfterLast ==
    RunOver =>
        LET P == Paced IN
        /\ Len(P) > 0 => P[Len(P)].op = "verify"
        /\ FaultFree =>
              \A k \in 1..Len(P) : P[k].op = IF k % 2 = 1 THEN "verify" ELSE "sleep"

\* What GET /session/<sid> answers when the file of the session is `rec`.
AnswerFor(sid, rec) == GetSession([s \in {sid} |-> rec], sid)

\* C18: a write replaces the record in one step. A GET /session/<id> made
\* while save_session_results is writing that session answers with the
\* record that was there or with the new one, and a listing made meanwhile
\* still has the session that had a record.
C18_AtomicReplace ==
    /\ (got.status = "done" /\ got.writer.pc = "opened") =>
          got.answer \in {AnswerFor(got.sid, got.writer.was),
                          AnswerFor(got.sid, got.writer.data)}
    /\ (listed.status = "done" /\ listed.answer.status = "200") =>
          \A sid \in DOMAIN writers :
              (writers[sid].pc = "opened" /\ writers[sid].was.kind = "json") =>
                  sid \in Listed(listed.answer)

\* The files of the directory that hold a complete record of a run.
WellFormed(store) ==
    {s \in DOMAIN store : store[s].kind = "json" /\ "timestamp" \in DOMAIN store[s]}

\* C19: files that cannot be read, hold no JSON or hold JSON of another
\* shape do not make GET /sessions fail: it succeeds, lists nothing of a file
\* that is no record, and has for every complete record the summary of what
\* its file holds.
C19_CorruptRecordsSkipped ==
    listed.status = "done" =>
        LET a == listed.answer IN
        /\ a.status = "200"
        /\ WellFormed(sessions) \subseteq Listed(a)
        /\ \A k \in 1..Len(a.sessions) :
              LET sid == a.sessions[k].session_id IN
              /\ sessions[sid].kind = "json"
              /\ a.sessions[k].total_processed = sessions[sid].total_processed
              /\ a.sessions[k].total_emails = sessions[sid].total_emails
              /\ a.sessions[k].deliverable_count = Len(sessions[sid].deliverable)
              /\ a.sessions[k].undeliverable_count = Len(sessions[sid].undeliverable)

\* C20: for the same raw text and the same outcome of the k-th verification
\* call (verdicts and transport errors), the lists process_emails returned
\* are, entry for entry and in order, the lists of the Complete event of the
\* streamed run, and both count the same number of processed addresses.
C20_SameListsBothRoutes ==
    pc = "at_complete" =>
        LET ev == Events[Len(Events)]
            r == response.results
        IN  /\ response.status \in {"200", "returned"}
            /\ IsComplete(ev)
            /\ r.deliverable = ev.results.deliverable
            /\ r.undeliverable = ev.results.undeliverable
            /\ r.total_processed = ev.results.total_processed
            /\ r.total_processed = ev.total_processed

C20_Witness ==
    /\ pc = "at_complete"
    /\ b_route = "direct"
    /\ emails_text = <<" ", "a", "\n", "\n", "a">>
    /\ oracle[1].kind = "error"
    /\ oracle[2] = Verdict(<<"deliverable">>, << >>)
    /\ response.results.deliverable = <<<<"a">>>>
    /\ response.results.undeliverable =
         <<[email |-> <<"a">>, reason |-> <<"API Error: ", "timeout">>]>>
    /\ deliverable_emails = <<<<"a">>>>

\* C21: once the consumer of the event stream has disconnected (the
\* generator was closed at the yield it waited in), the streamed run does
\* nothing more: no verification call, no snapshot write, no event and no
\* delay follows the disconnect, and generate() is over: no handler took the
\* disconnect for a processing error and went on with the next address.
C21_NoWorkAfterDisconnect ==
    \A k \in 1..Len(trace) :
        trace[k].op = "close" =>
            /\ k = Len(trace)
            /\ trace[k - 1].op = "yield"
            /\ pc = "closed"

\* The consumer left after the progress event of the first of several
\* addresses: the others were never verified.
C21_Witness ==
    /\ pc = "closed"
    /\ trace[Len(trace)].op = "close"
    /\ Len(emails) >= 2
    /\ i = 1
    /\ Len(Verifies) = 1
    /\ Len(Saves) = 1
    /\ IsProgress(Events[Len(Events)])
    /\ Events[Len(Events)].current = 1

\* A snapshot this run wrote: the session's file as save_session_results
\* left it (the record of an earlier run has timestamp 0).
OwnSnapshot ==
    /\ sessions[session_id].kind = "json"
    /\ sessions[session_id].timestamp > 0

\* The counts of a snapshot or of a terminal event agree with its lists and
\* stay within the batch.
CountsAgree(processed, d, u, total) ==
    /\ processed = Len(d) + Len(u)
    /\ processed <= total

\* C22: in every snapshot a streamed run wrote and in its Complete or
\* PartialComplete event, total_processed equals the number of entries of
\* the two lists (deliverable_count + undeliverable_count = total_processed)
\* and never exceeds the batch total, whatever the per-address outcomes were.
C22_CountsConsistent ==
    /\ OwnSnapshot =>
          LET rec == sessions[session_id] IN
          /\ rec.total_emails = total_emails
          /\ CountsAgree(rec.total_processed, rec.deliverable, rec.undeliverable,
                         rec.total_emails)
    /\ \A n \in 1..Len(Events) :
          LET ev == Events[n] IN
          (IsComplete(ev) \/ IsPartialComplete(ev)) =>
              /\ ev.deliverable_count = Len(ev.results.deliverable)
              /\ ev.undeliverable_count = Len(ev.results.undeliverable)
              /\ ev.results.total_processed = ev.total_processed
              /\ CountsAgree(ev.total_processed, ev.results.deliverable,
                             ev.results.undeliverable, total_emails)

====
